---- MODULE Spec2Model ----
(***************************************************************************)
(* Model of the document search tool search_documents                      *)
(* (src/tools/searching/search_tools.py), of the external adapter          *)
(* YandexSearch (src/tools/searching/search_yandex.py) and of the document *)
(* type UnifiedDoc (src/utils/types.py), and of the agent graph that calls *)
(* the tool (src/agent/graph.py, src/agent/nodes.py).                      *)
(*                                                                         *)
(* Strings are sequences of pieces.  A title, a query or a page content is *)
(* a sequence of single characters; a URL is a sequence of URL pieces      *)
(* (scheme, host, "/", path segment).  Scores are carried in hundredths.   *)
(***************************************************************************)
EXTENDS Integers, Sequences, FiniteSets, TLC

VARIABLES
    req,               \* the arguments the caller passed: [query, source, limit]
    pc,                \* position of the calling thread inside search_documents
    source,            \* local `source` (reassigned at line 64)
    limit,             \* local `limit` (reassigned at lines 58-61)
    constructed,       \* YandexSearch() and ActionSearch() were constructed (lines 67-68)
    yandex_results,    \* container written by safe_yandex_search (docs)
    internal_results,  \* container written by safe_internal_search (docs)
    yandex_future,     \* [st, exc]: state of the task submitted at line 92
    internal_future,   \* [st, exc]: state of the task submitted at line 93
    yandex_call,       \* sizes yandex.run was called with, in call order
    internal_call,     \* sizes internal.run was called with, in call order
    ext_world,         \* what the provider and the web answer on this query
    int_world,         \* what the internal index answers on this query
    tasks,             \* YandexSearch.search: the links the fetch tasks were created for
    pages,             \* YandexSearch.search: result slot of every fetch task
    fetch_order,       \* the fetch tasks that completed, in the order of completion, until gather returns
    reordered,         \* a fetch task completed before one that was created earlier
    finish_order,      \* the order in which the two backend tasks completed
    raw,               \* YandexSearch.run: the items returned by search()
    all_docs,          \* merged documents (lines 97-101)
    ranked,            \* deduplicated, scored, sorted and truncated documents (line 111)
    merge_read,        \* state of the two futures at the moment the merge read the containers
    result,            \* the dictionary returned by search_documents
    outcome,           \* "running", "returned" or "raised"
    run_no,            \* 1 for the first call, 2 for the repeated call
    first_result,      \* the result of the first call, once it was repeated
    first_in_order,    \* the first call's tasks completed in the order they were created
    ctor_args,         \* UnifiedDoc(...): the keyword arguments of the constructor calls to make
    ctor_docs,         \* UnifiedDoc(...): what the calls made so far gave, a document or an error
    ctor_kept,         \* the constructed documents after deduplication
    agent,             \* the agent graph's run: [pc, state, trace, error]
    fs,                \* the files of the run: [search_dir, thinking_file]
    searches           \* what search_documents returned to search_and_save, per sub-query

vars == <<req, pc, source, limit, constructed, yandex_results, internal_results,
          yandex_future, internal_future, yandex_call, internal_call,
          ext_world, int_world, tasks, pages, fetch_order, reordered, finish_order, raw,
          all_docs, ranked, merge_read, result, outcome, run_no, first_result, first_in_order,
          ctor_args, ctor_docs, ctor_kept, agent, fs, searches>>

-----------------------------------------------------------------------------
(* Bounds of the explored inputs *)

MaxHits == 2       \* longest answer of the internal index
MaxLinks == 2      \* longest list of links of the provider
MaxDocs == 2       \* most documents constructed and deduplicated together

-----------------------------------------------------------------------------
(* Strings *)

Whitespace == {" ", "\t", "\n"}

\* str.lower(), piece by piece
LowerPiece(c) ==
    CASE c = "N" -> "n"
      [] c = "K" -> "k"
      [] c = "P" -> "p"
      [] c = "B" -> "b"
      [] c = "E" -> "e"
      [] c = "O" -> "o"
      [] c = "D" -> "d"
      [] c = "Doc" -> "doc"
      [] OTHER -> c

Lower(s) == [i \in DOMAIN s |-> LowerPiece(s[i])]

IsEmpty(q) == q = <<>>

\* `not query or not query.strip()`
IsBlank(q) == \A i \in DOMAIN q : q[i] \in Whitespace

\* `key in s` for a key that is one piece
Contains(s, key) == \E i \in DOMAIN s : s[i] = key

Take(s, n) == SubSeq(s, 1, IF Len(s) < n THEN Len(s) ELSE n)

-----------------------------------------------------------------------------
(* UnifiedDoc (src/utils/types.py) *)

None == <<"<None>">>                 \* Python's None in a string field
Truthy(s) == s # None /\ s # <<>>    \* `if s` / `s or ...`

MinTitleLen == 2                     \* Field(..., min_length=2)

Schemes == {"http://", "https://"}

\* pydantic HttpUrl accepts an absolute http(s) URL with a host
IsHttpUrl(u) == Len(u) >= 2 /\ u[1] \in Schemes /\ u[2] \notin Schemes \cup {"/"}

\* str(HttpUrl(u)): a URL without a path is printed with the path "/"
HttpUrlStr(u) == IF Len(u) = 2 THEN u \o <<"/">> ELSE u

\* hashlib.md5(base).hexdigest(), taken as injective: the digest is
\* identified with the text it was computed from
Md5(base) == base

\* model_validator compute_hash: a hash that is passed in is kept, an empty
\* one is computed from (title + "|" + url).lower()
compute_hash_case_sensitive(data) ==
    IF data.hash # <<>>
    THEN data
    ELSE [data EXCEPT !.hash = Md5(data.title \o <<"|">> \o data.url)]

compute_hash(data) ==
    IF data.hash # <<>>
    THEN data
    ELSE [data EXCEPT !.hash = Md5(Lower(data.title \o <<"|">> \o data.url))]

\* field validation of UnifiedDoc(...) as called with url=HttpUrl(link)
ValidDoc(title, link) == Len(title) >= MinTitleLen /\ IsHttpUrl(link)

UnifiedDoc(title, snippet, content, link, src, doc_type, score_raw, law_refs, hash) ==
    compute_hash([title |-> title, snippet |-> snippet, content |-> content,
                  url |-> HttpUrlStr(link), source |-> src, doc_type |-> doc_type,
                  score_raw |-> score_raw, score_rank |-> 0,
                  law_refs |-> law_refs, hash |-> hash])

\* UnifiedDoc(title=..., url=..., source="internal", hash=...) for any
\* arguments: url is passed as an HttpUrl object or as a string, [form, link].
\* The validator compute_hash runs before the fields are validated and
\* sees str(url) of what was passed; the stored url is the validated one.
ValidationError == [kind |-> "raise"]
Built(doc) == [kind |-> "ok", doc |-> doc]

UrlSeenByValidator(url) == IF url.form = "HttpUrl" THEN HttpUrlStr(url.link) ELSE url.link

model_init(args) ==
    IF ~ValidDoc(args.title, args.url.link) THEN ValidationError
    ELSE Built([compute_hash([title |-> args.title, snippet |-> None, content |-> None,
                              url |-> UrlSeenByValidator(args.url), source |-> "internal",
                              doc_type |-> "article", score_raw |-> 0, score_rank |-> 0,
                              law_refs |-> <<>>, hash |-> args.hash])
                EXCEPT !.url = HttpUrlStr(args.url.link)])

-----------------------------------------------------------------------------
(* Helpers of the external adapter (src/tools/searching/search_yandex.py) *)

_infer_doc_type(url) ==
    IF Contains(url, "consultant.ru") \/ Contains(url, "garant.ru") THEN "law"
    ELSE IF Contains(url, "nalog.gov.ru") \/ Contains(url, "minfin.gov.ru") THEN "gov_letter"
    ELSE IF Contains(url, "sudact.ru") THEN "court"
    ELSE IF Contains(url, "forum") THEN "forum"
    ELSE IF Contains(url, "news") THEN "news"
    ELSE "article"

\* the legal codes the pattern looks for, written as one character each:
\* "n" for the tax code, "p" for the accounting standard; re.IGNORECASE
LawCodes == {"n", "p"}

UpperPiece(c) ==
    CASE c = "n" -> "N"
      [] c = "p" -> "P"
      [] OTHER -> c

_extract_law_refs(title, snippet, content) ==
    LET text == title \o <<" ">> \o snippet \o <<" ">> \o content
        hits == SelectSeq(text, LAMBDA c : LowerPiece(c) \in LawCodes)
    IN  [i \in DOMAIN hits |-> [code |-> UpperPiece(LowerPiece(hits[i])), article |-> None]]

-----------------------------------------------------------------------------
(* NormalizeMergeRerank: _dedup and _score *)

RECURSIVE _dedup(_)
_dedup(docs) ==
    IF docs = <<>> THEN <<>>
    ELSE LET head == _dedup(SubSeq(docs, 1, Len(docs) - 1))
             d == docs[Len(docs)]
         IN  IF \E i \in DOMAIN head : head[i].hash = d.hash
             THEN head
             ELSE Append(head, d)

TypeWeight ==
    [t \in {"law", "gov_letter", "court", "article", "faq", "news", "forum", "internal"} |->
        CASE t \in {"law", "gov_letter"} -> 300
          [] t = "court" -> 200
          [] t \in {"article", "faq", "internal"} -> 100
          [] OTHER -> 50]

LawBoost == 100

_score(d) ==
    [d EXCEPT !.score_rank = d.score_raw + TypeWeight[d.doc_type]
                             + (IF d.law_refs # <<>> THEN LawBoost ELSE 0)]

-----------------------------------------------------------------------------
(* sorted(scored, key=lambda d: d.score_rank, reverse=True)[:limit] *)

\* insertion behind every element that is not smaller: equal keys keep
\* their input order, as Python's sorted does also with reverse=True
InsertDesc(t, d) ==
    LET k == Cardinality({i \in DOMAIN t : t[i].score_rank >= d.score_rank})
    IN  SubSeq(t, 1, k) \o <<d>> \o SubSeq(t, k + 1, Len(t))

\* ascending sort followed by a reversal: equal keys end in reverse order
InsertAsc(t, d) ==
    LET k == Cardinality({i \in DOMAIN t : t[i].score_rank <= d.score_rank})
    IN  SubSeq(t, 1, k) \o <<d>> \o SubSeq(t, k + 1, Len(t))

RECURSIVE sorted_asc(_)
sorted_asc(s) ==
    IF s = <<>> THEN <<>>
    ELSE InsertAsc(sorted_asc(SubSeq(s, 1, Len(s) - 1)), s[Len(s)])

sorted_then_reversed(s) ==
    LET a == sorted_asc(s) IN [i \in DOMAIN a |-> a[Len(a) + 1 - i]]

RECURSIVE sorted_reverse(_)
sorted_reverse(s) ==
    IF s = <<>> THEN <<>>
    ELSE InsertDesc(sorted_reverse(SubSeq(s, 1, Len(s) - 1)), s[Len(s)])

\* s[:n] for n >= 0
Slice(s, n) == Take(s, n)

Rank(deduped, lim) == Slice(sorted_reverse([i \in DOMAIN deduped |-> _score(deduped[i])]), lim)

\* one entry of formatted_docs (lines 117-125);
\* `doc.snippet or doc.content[:200] if doc.content else ""` parses as
\* `(doc.snippet or doc.content[:200]) if doc.content else ""`
SnippetLen == 200

FormatDoc(doc) ==
    [title |-> doc.title,
     url |-> doc.url,
     snippet |-> IF Truthy(doc.content)
                 THEN (IF Truthy(doc.snippet) THEN doc.snippet ELSE Take(doc.content, SnippetLen))
                 ELSE <<>>,
     source |-> doc.source,
     doc_type |-> doc.doc_type,
     score |-> doc.score_rank]

-----------------------------------------------------------------------------
(* The inputs: what the caller passes and what the two backends answer *)

Queries == {<<>>, <<" ">>, <<"q">>}
Sources == {"internal", "yandex", "both", "invalid_value"}
Limits == {-1, 0, 2, 11}

SeqsUpTo(S, n) == UNION {[1..k -> S] : k \in 0..n}

\* hits of the internal index: [title, url, snippet, content, score]
InternalPool ==
    { [title |-> <<"N", "K">>, url |-> <<"http://", "a.ru">>,
       snippet |-> <<"s">>, content |-> None, score |-> 0],
      [title |-> <<"B", "u">>, url |-> <<"http://", "b.ru", "/", "Doc">>,
       snippet |-> None, content |-> <<"c">>, score |-> 0] }

\* what one fetch task ends with: the dictionary _scrape_page returns
\* ("page") or an exception that asyncio.gather captures ("exc")
Page(title, content) == [kind |-> "page", title |-> title, content |-> content]
PageExc == [kind |-> "exc", title |-> <<>>, content |-> <<>>]
PagePending == [kind |-> "pending", title |-> <<>>, content |-> <<>>]

\* str.strip()
RECURSIVE Strip(_)
Strip(s) ==
    IF s = <<>> THEN <<>>
    ELSE IF s[1] \in Whitespace THEN Strip(Tail(s))
    ELSE IF s[Len(s)] \in Whitespace THEN Strip(SubSeq(s, 1, Len(s) - 1))
    ELSE s

\* normalize_whitespace, lines 26-29: re.sub(r"\s+", " ", (s or "").strip())
normalize_whitespace(s) ==
    LET t == IF Truthy(s) THEN Strip(s) ELSE <<>>
        firsts == SelectSeq([i \in DOMAIN t |-> <<i, t[i]>>],
                            LAMBDA e : ~(e[2] \in Whitespace /\ e[1] > 1 /\ t[e[1] - 1] \in Whitespace))
    IN  [i \in DOMAIN firsts |-> IF firsts[i][2] \in Whitespace THEN " " ELSE firsts[i][2]]

\* the two titles the adapter writes itself ("Без заголовка" and "Ошибка"),
\* in Latin letters
NoTitle == <<"B", "e", "z", " ", "z", "a", "g", "o", "l", "o", "v", "k", "a">>
ErrorTitle == <<"O", "s", "h", "i", "b", "k", "a">>

\* what the parsers see in a loaded page: the text of <title>, the content
\* attributes of the og:title and twitter:title metas (None when absent),
\* what trafilatura.extract gives (a text, None, or it raises) and what
\* BeautifulSoup's get_text gives (a text, or the processing raises)
ParserRaises == <<"<raises>">>
Html(title_tag, og_title, tw_title, extracted, body) ==
    [title_tag |-> title_tag, og_title |-> og_title, tw_title |-> tw_title,
     extracted |-> extracted, body |-> body]
NoHtml == Html(None, None, None, None, <<>>)

\* _extract_title_from_html, lines 31-47
_extract_title_from_html(html) ==
    IF Truthy(html.title_tag) /\ Strip(html.title_tag) # <<>> THEN Strip(html.title_tag)
    ELSE IF Truthy(html.og_title) THEN Strip(html.og_title)
    ELSE IF Truthy(html.tw_title) THEN Strip(html.tw_title)
    ELSE NoTitle

\* how loading one link ends: a status other than 200 ("status"),
\* asyncio.TimeoutError ("timeout"), aiohttp.ClientError ("client_error"),
\* another exception inside the try ("error"), a loaded page ("html"), or
\* an exception raised outside the handlers of _scrape_page ("escape")
Fetch(kind, detail, html) == [kind |-> kind, detail |-> detail, html |-> html]
FetchFailed(kind, detail) == Fetch(kind, detail, NoHtml)
FetchHtml(html) == Fetch("html", "", html)

\* _scrape_page from line 124 on: the page was loaded
_scrape_loaded(f) ==
    LET h == f.html
        title == _extract_title_from_html(h)
        extracted == IF h.extracted = ParserRaises THEN None
                     ELSE IF Truthy(h.extracted) THEN h.extracted ELSE <<>>
    IN  IF Truthy(extracted) THEN Page(title, normalize_whitespace(extracted))
        ELSE IF h.body = ParserRaises
        THEN Page(ErrorTitle, <<"HTML processing error: ", f.detail>>)
        ELSE Page(IF (title = <<>> \/ title = NoTitle) /\ Truthy(h.title_tag)
                  THEN (IF Strip(h.title_tag) # <<>> THEN Strip(h.title_tag) ELSE NoTitle)
                  ELSE title,
                  normalize_whitespace(h.body))

\* _scrape_page, lines 106-152; the text of a message is one piece
_scrape_page_raising(url, f) ==
    IF f.kind = "html" THEN _scrape_loaded(f) ELSE PageExc

_scrape_page(url, f) ==
    CASE f.kind = "status" -> Page(ErrorTitle, <<"HTTP status: ", f.detail>>)
      [] f.kind = "timeout" -> Page(ErrorTitle, <<"Timeout loading ">> \o url)
      [] f.kind = "client_error" ->
            Page(ErrorTitle, <<"aiohttp error loading ">> \o url \o <<": ", f.detail>>)
      [] f.kind = "error" ->
            Page(ErrorTitle, <<"Unexpected error loading ">> \o url \o <<": ", f.detail>>)
      [] f.kind = "escape" -> PageExc
      [] f.kind = "html" -> _scrape_loaded(f)

\* links of the provider, each with how loading it ends
LinkPool ==
    { [link |-> <<"http://", "a.ru">>,
       fetch |-> FetchHtml(Html(<<"N", "k">>, None, None, <<"t", "x">>, <<>>))],
      [link |-> <<"https://", "consultant.ru", "/", "Doc">>,
       fetch |-> FetchHtml(Html(<<"K", "o">>, None, None, None, <<>>))],
      [link |-> <<"http://", "b.ru", "/", "Doc">>,
       fetch |-> FetchHtml(Html(<<"x">>, None, None, <<"t">>, <<>>))],
      [link |-> <<"http://", "b.ru", "/", "forum">>, fetch |-> FetchFailed("escape", "")],
      [link |-> <<>>, fetch |-> FetchFailed("escape", "")] }

NoWorld == [kind |-> "none", items |-> <<>>]
Raises == [kind |-> "raise", items |-> <<>>]

\* the provider raises or returns a list of links
ExtWorlds == {Raises} \cup {[kind |-> "links", items |-> s] : s \in SeqsUpTo(LinkPool, MaxLinks)}

\* the internal index raises or returns a list of hits
IntWorlds == {Raises} \cup {[kind |-> "hits", items |-> s] : s \in SeqsUpTo(InternalPool, MaxHits)}

-----------------------------------------------------------------------------
(* The adapters' run(): raw items to SearchResults, or an exception *)

Ok(docs) == [kind |-> "ok", docs |-> docs]
Raised == [kind |-> "raise", docs |-> <<>>]

\* YandexSearch.search, lines 205-216: the links that are not empty paired
\* with the pages in the order asyncio.gather returns them, which is the
\* order of the tasks; a page that is an exception is skipped
GatheredAsCompleted(tsk, pgs, order) == [i \in DOMAIN tsk |-> pgs[order[i]]]

Gathered(tsk, pgs, order) == [i \in DOMAIN tsk |-> pgs[i]]

processed_items(tsk, pgs, order) ==
    LET got == Gathered(tsk, pgs, order)
        pairs == [i \in DOMAIN tsk |-> [link |-> tsk[i].link, page |-> got[i]]]
        kept == SelectSeq(pairs, LAMBDA p : p.page.kind # "exc")
    IN  [i \in DOMAIN kept |->
            [title |-> kept[i].page.title, url |-> kept[i].link, content |-> kept[i].page.content]]

\* YandexSearch.run, lines 226-241
YandexRun(items) ==
    IF \A i \in DOMAIN items : ValidDoc(items[i].title, items[i].url)
    THEN Ok([i \in DOMAIN items |->
               UnifiedDoc(items[i].title, None, items[i].content, items[i].url, "yandex",
                          _infer_doc_type(items[i].url), 0,
                          _extract_law_refs(items[i].title, <<>>, items[i].content), <<>>)])
    ELSE Raised

\* ActionSearch.run
InternalRun(world) ==
    IF world.kind = "raise" THEN Raised
    ELSE LET items == world.items
         IN  IF \A i \in DOMAIN items : ValidDoc(items[i].title, items[i].url)
             THEN Ok([i \in DOMAIN items |->
                        UnifiedDoc(items[i].title, items[i].snippet, items[i].content,
                                   items[i].url, "internal", "internal", items[i].score,
                                   <<>>, <<>>)])
             ELSE Raised

\* safe_yandex_search / safe_internal_search, lines 76-80 and 85-89: the
\* container is assigned when run() returns; an exception is logged and the
\* task ends normally, so the future holds no exception
safe_search_unguarded(res, old) ==
    [docs |-> IF res.kind = "ok" THEN res.docs ELSE old, exc |-> res.kind = "raise"]

safe_search(res, old) ==
    [docs |-> IF res.kind = "ok" THEN res.docs ELSE old, exc |-> FALSE]

-----------------------------------------------------------------------------
(* search_documents: the calling thread *)

Future(st) == [st |-> st, exc |-> FALSE]

NoResult == [documents |-> <<>>, total_found |-> -1, query |-> <<>>, source |-> "",
             keys |-> {}]

\* the state at the entry of a call with arguments r
Entry(r) ==
    /\ req = r
    /\ pc = "call"
    /\ source = r.source
    /\ limit = r.limit
    /\ constructed = FALSE
    /\ yandex_results = <<>>
    /\ internal_results = <<>>
    /\ yandex_future = Future("none")
    /\ internal_future = Future("none")
    /\ yandex_call = <<>>
    /\ internal_call = <<>>
    /\ tasks = <<>>
    /\ pages = <<>>
    /\ fetch_order = <<>>
    /\ reordered = FALSE
    /\ finish_order = <<>>
    /\ raw = <<>>
    /\ all_docs = <<>>
    /\ ranked = <<>>
    /\ merge_read = <<>>
    /\ result = NoResult
    /\ outcome = "running"

\* no constructor call of its own is made beside the search
NoConstructorCalls ==
    /\ ctor_args = <<>>
    /\ ctor_docs = <<>>
    /\ ctor_kept = <<>>

\* the agent graph is not run
AgentIdle == [pc |-> "idle", state |-> <<>>, trace |-> <<>>, error |-> ""]
AbsentDir == [exists |-> FALSE, files |-> {}]
AbsentFile == [exists |-> FALSE, partial_answers |-> <<>>]
NoFiles == [search_dir |-> AbsentDir, thinking_file |-> AbsentFile]

NoAgentRun ==
    /\ agent = AgentIdle
    /\ fs = NoFiles
    /\ searches = <<>>

Init ==
    /\ NoAgentRun
    /\ NoConstructorCalls
    /\ \E q \in Queries, s \in Sources, l \in Limits :
          Entry([query |-> q, source |-> s, limit |-> l])
    /\ ext_world = NoWorld
    /\ int_world = NoWorld
    /\ run_no = 1
    /\ first_result = NoResult
    /\ first_in_order = FALSE

\* lines 58-61
ClampLimitUpperOnly(l) == IF l > 10 THEN 10 ELSE l

ClampLimit(l) == IF l < 1 THEN 1 ELSE IF l > 10 THEN 10 ELSE l

\* lines 63-64
CoerceSourceNever(s) == s

CoerceSource(s) == IF s \notin {"internal", "yandex", "both"} THEN "both" ELSE s

\* lines 48-56
BlankResult(q, s) ==
    [documents |-> <<>>, total_found |-> 0, query |-> q, source |-> s,
     keys |-> {"documents", "total_found", "query", "source",
               "internal_docs", "yandex_docs", "merged_docs"}]

\* lines 46-64: the blank query returns at once, otherwise limit and source
\* are normalised
Validate ==
    /\ pc = "call"
    /\ IF IsBlank(req.query)
       THEN /\ result' = BlankResult(req.query, source)
            /\ outcome' = "returned"
            /\ pc' = "done"
            /\ UNCHANGED <<source, limit>>
       ELSE /\ limit' = ClampLimit(limit)
            /\ source' = CoerceSource(source)
            /\ pc' = "construct"
            /\ UNCHANGED <<result, outcome>>
    /\ UNCHANGED <<agent, fs, searches, ctor_args, ctor_docs, ctor_kept, req, constructed, yandex_results, internal_results, yandex_future,
                   internal_future, yandex_call, internal_call, ext_world, int_world,
                   tasks, pages, fetch_order, finish_order, raw, all_docs, ranked,
                   merge_read, run_no, first_result, first_in_order, reordered>>

\* lines 66-71: the two backends and the two empty containers
Construct ==
    /\ pc = "construct"
    /\ constructed' = TRUE
    /\ yandex_results' = <<>>
    /\ internal_results' = <<>>
    /\ pc' = "submit_yandex"
    /\ UNCHANGED <<agent, fs, searches, ctor_args, ctor_docs, ctor_kept, req, source, limit, yandex_future, internal_future, yandex_call,
                   internal_call, ext_world, int_world, tasks, pages, fetch_order,
                   finish_order, raw, all_docs, ranked, merge_read, result, outcome,
                   run_no, first_result, first_in_order, reordered>>

\* line 92
SubmitYandex ==
    /\ pc = "submit_yandex"
    /\ yandex_future' = Future("pending")
    /\ pc' = "submit_internal"
    /\ UNCHANGED <<agent, fs, searches, ctor_args, ctor_docs, ctor_kept, req, source, limit, constructed, yandex_results, internal_results,
                   internal_future, yandex_call, internal_call, ext_world, int_world,
                   tasks, pages, fetch_order, finish_order, raw, all_docs, ranked,
                   merge_read, result, outcome, run_no, first_result, first_in_order, reordered>>

\* line 93
SubmitInternal ==
    /\ pc = "submit_internal"
    /\ internal_future' = Future("pending")
    /\ pc' = "wait_yandex"
    /\ UNCHANGED <<agent, fs, searches, ctor_args, ctor_docs, ctor_kept, req, source, limit, constructed, yandex_results, internal_results,
                   yandex_future, yandex_call, internal_call, ext_world, int_world,
                   tasks, pages, fetch_order, finish_order, raw, all_docs, ranked,
                   merge_read, result, outcome, run_no, first_result, first_in_order, reordered>>

\* Future.result() and the pool's shutdown(wait=True) block until the task
\* has finished
CompletedOnSubmit(f) == f.st # "none"

Completed(f) == f.st = "done"

\* line 94: yandex_future.result() blocks, then re-raises what the task raised
WaitYandex ==
    /\ pc = "wait_yandex"
    /\ Completed(yandex_future)
    /\ IF yandex_future.exc
       THEN outcome' = "raising" /\ pc' = "exit_with"
       ELSE outcome' = outcome /\ pc' = "wait_internal"
    /\ UNCHANGED <<agent, fs, searches, ctor_args, ctor_docs, ctor_kept, req, source, limit, constructed, yandex_results, internal_results,
                   yandex_future, internal_future, yandex_call, internal_call,
                   ext_world, int_world, tasks, pages, fetch_order, finish_order, raw,
                   all_docs, ranked, merge_read, result, run_no, first_result, first_in_order, reordered>>

\* line 95
WaitInternal ==
    /\ pc = "wait_internal"
    /\ Completed(internal_future)
    /\ outcome' = IF internal_future.exc THEN "raising" ELSE outcome
    /\ pc' = "exit_with"
    /\ UNCHANGED <<agent, fs, searches, ctor_args, ctor_docs, ctor_kept, req, source, limit, constructed, yandex_results, internal_results,
                   yandex_future, internal_future, yandex_call, internal_call,
                   ext_world, int_world, tasks, pages, fetch_order, finish_order, raw,
                   all_docs, ranked, merge_read, result, run_no, first_result, first_in_order, reordered>>

\* line 91, leaving the with block: the pool is shut down with wait=True,
\* then a pending exception leaves search_documents
ExitWith ==
    /\ pc = "exit_with"
    /\ Completed(yandex_future)
    /\ Completed(internal_future)
    /\ IF outcome = "raising"
       THEN outcome' = "raised" /\ pc' = "done"
       ELSE outcome' = outcome /\ pc' = "merge"
    /\ UNCHANGED <<agent, fs, searches, ctor_args, ctor_docs, ctor_kept, req, source, limit, constructed, yandex_results, internal_results,
                   yandex_future, internal_future, yandex_call, internal_call,
                   ext_world, int_world, tasks, pages, fetch_order, finish_order, raw,
                   all_docs, ranked, merge_read, result, run_no, first_result, first_in_order, reordered>>

\* lines 97-101
MergeDocsExternalFirst(src, idocs, ydocs) ==
    (IF src \in {"yandex", "both"} THEN ydocs ELSE <<>>)
    \o (IF src \in {"internal", "both"} THEN idocs ELSE <<>>)

MergeDocs(src, idocs, ydocs) ==
    (IF src \in {"internal", "both"} THEN idocs ELSE <<>>)
    \o (IF src \in {"yandex", "both"} THEN ydocs ELSE <<>>)

Merge ==
    /\ pc = "merge"
    /\ all_docs' = MergeDocs(source, internal_results, yandex_results)
    /\ merge_read' = <<yandex_future.st, internal_future.st>>
    /\ pc' = "rank"
    /\ UNCHANGED <<agent, fs, searches, ctor_args, ctor_docs, ctor_kept, req, source, limit, constructed, yandex_results, internal_results,
                   yandex_future, internal_future, yandex_call, internal_call,
                   ext_world, int_world, tasks, pages, fetch_order, finish_order, raw,
                   ranked, result, outcome, run_no, first_result, first_in_order, reordered>>

\* lines 109-111
DedupScoreRank ==
    /\ pc = "rank"
    /\ ranked' = Rank(_dedup(all_docs), limit)
    /\ pc' = "format"
    /\ UNCHANGED <<agent, fs, searches, ctor_args, ctor_docs, ctor_kept, req, source, limit, constructed, yandex_results, internal_results,
                   yandex_future, internal_future, yandex_call, internal_call,
                   ext_world, int_world, tasks, pages, fetch_order, finish_order, raw,
                   all_docs, merge_read, result, outcome, run_no, first_result, first_in_order, reordered>>

\* lines 115-135
FusionResultCountsMerged(docs, q, s) ==
    [documents |-> [i \in DOMAIN docs |-> FormatDoc(docs[i])],
     total_found |-> Len(all_docs), query |-> q, source |-> s,
     keys |-> {"documents", "total_found", "query", "source"}]

FusionResult(docs, q, s) ==
    [documents |-> [i \in DOMAIN docs |-> FormatDoc(docs[i])],
     total_found |-> Len(docs), query |-> q, source |-> s,
     keys |-> {"documents", "total_found", "query", "source"}]

Return ==
    /\ pc = "format"
    /\ result' = FusionResult(ranked, req.query, source)
    /\ outcome' = "returned"
    /\ pc' = "done"
    /\ UNCHANGED <<agent, fs, searches, ctor_args, ctor_docs, ctor_kept, req, source, limit, constructed, yandex_results, internal_results,
                   yandex_future, internal_future, yandex_call, internal_call,
                   ext_world, int_world, tasks, pages, fetch_order, finish_order, raw,
                   all_docs, ranked, merge_read, run_no, first_result, first_in_order, reordered>>

-----------------------------------------------------------------------------
(* The two pool workers *)

NonEmpty(items) == SelectSeq(items, LAMBDA e : e.link # <<>>)

\* line 75: a worker takes the task; the backend runs only when selected
YandexStartAlways ==
    /\ yandex_future.st = "pending"
    /\ IF TRUE
       THEN /\ yandex_future' = [yandex_future EXCEPT !.st = "run"]
            /\ yandex_call' = Append(yandex_call, limit)
            /\ UNCHANGED finish_order
       ELSE /\ yandex_future' = [yandex_future EXCEPT !.st = "done"]
            /\ finish_order' = Append(finish_order, "yandex")
            /\ UNCHANGED yandex_call
    /\ UNCHANGED <<agent, fs, searches, ctor_args, ctor_docs, ctor_kept, req, pc, source, limit, constructed, yandex_results, internal_results,
                   internal_future, internal_call, ext_world, int_world, tasks, pages,
                   fetch_order, raw, all_docs, ranked, merge_read, result, outcome,
                   run_no, first_result, first_in_order, reordered>>

YandexStart ==
    /\ yandex_future.st = "pending"
    /\ IF source \in {"yandex", "both"}
       THEN /\ yandex_future' = [yandex_future EXCEPT !.st = "run"]
            /\ yandex_call' = Append(yandex_call, limit)
            /\ UNCHANGED finish_order
       ELSE /\ yandex_future' = [yandex_future EXCEPT !.st = "done"]
            /\ finish_order' = Append(finish_order, "yandex")
            /\ UNCHANGED yandex_call
    /\ UNCHANGED <<agent, fs, searches, ctor_args, ctor_docs, ctor_kept, req, pc, source, limit, constructed, yandex_results, internal_results,
                   internal_future, internal_call, ext_world, int_world, tasks, pages,
                   fetch_order, raw, all_docs, ranked, merge_read, result, outcome,
                   run_no, first_result, first_in_order, reordered>>

\* YandexSearch.search, lines 188-203: the provider is asked for links; an
\* exception or an empty list gives [], otherwise one fetch task is created
\* for every link that is not empty
YandexGetLinks ==
    /\ yandex_future.st = "run"
    /\ \E w \in (IF ext_world = NoWorld THEN ExtWorlds ELSE {ext_world}) :
          /\ ext_world' = w
          /\ IF w.kind = "raise" \/ w.items = <<>>
             THEN /\ raw' = <<>>
                  /\ yandex_future' = [yandex_future EXCEPT !.st = "collected"]
                  /\ UNCHANGED <<tasks, pages>>
             ELSE /\ tasks' = NonEmpty(w.items)
                  /\ pages' = [i \in DOMAIN NonEmpty(w.items) |-> PagePending]
                  /\ yandex_future' = [yandex_future EXCEPT !.st = "fetching"]
                  /\ UNCHANGED raw
    /\ UNCHANGED <<agent, fs, searches, ctor_args, ctor_docs, ctor_kept, req, pc, source, limit, constructed, yandex_results, internal_results,
                   internal_future, yandex_call, internal_call, int_world, fetch_order,
                   finish_order, all_docs, ranked, merge_read, result, outcome, run_no,
                   first_result, first_in_order, reordered>>

\* one fetch task (_scrape_page) ends; the tasks end in any order
YandexFetch(i) ==
    /\ yandex_future.st = "fetching"
    /\ i \in DOMAIN tasks
    /\ pages[i] = PagePending
    /\ pages' = [pages EXCEPT ![i] = _scrape_page(tasks[i].link, tasks[i].fetch)]
    /\ fetch_order' = Append(fetch_order, i)
    /\ reordered' = (reordered \/ \E j \in 1..(i - 1) : pages[j] = PagePending)
    /\ UNCHANGED <<agent, fs, searches, ctor_args, ctor_docs, ctor_kept, req, pc, source, limit, constructed, yandex_results, internal_results,
                   yandex_future, internal_future, yandex_call, internal_call, ext_world,
                   int_world, tasks, finish_order, raw, all_docs, ranked, merge_read,
                   result, outcome, run_no, first_result, first_in_order>>

\* lines 203-218: gather returns when every task has ended
YandexCollect ==
    /\ yandex_future.st = "fetching"
    /\ \A i \in DOMAIN tasks : pages[i] # PagePending
    /\ raw' = processed_items(tasks, pages, fetch_order)
    /\ fetch_order' = <<>>
    /\ yandex_future' = [yandex_future EXCEPT !.st = "collected"]
    /\ UNCHANGED <<agent, fs, searches, ctor_args, ctor_docs, ctor_kept, req, pc, source, limit, constructed, yandex_results, internal_results,
                   internal_future, yandex_call, internal_call, ext_world, int_world,
                   tasks, pages, finish_order, all_docs, ranked, merge_read,
                   result, outcome, run_no, first_result, first_in_order, reordered>>

\* YandexSearch.run builds the documents; lines 76-80 assign them
YandexFinish ==
    /\ yandex_future.st = "collected"
    /\ LET r == safe_search(YandexRun(raw), yandex_results)
       IN  /\ yandex_results' = r.docs
           /\ yandex_future' = [st |-> "done", exc |-> r.exc]
    /\ finish_order' = Append(finish_order, "yandex")
    /\ UNCHANGED <<agent, fs, searches, ctor_args, ctor_docs, ctor_kept, req, pc, source, limit, constructed, internal_results, internal_future,
                   yandex_call, internal_call, ext_world, int_world, tasks, pages,
                   fetch_order, raw, all_docs, ranked, merge_read, result, outcome,
                   run_no, first_result, first_in_order, reordered>>

\* line 84
InternalStart ==
    /\ internal_future.st = "pending"
    /\ IF source \in {"internal", "both"}
       THEN /\ internal_future' = [internal_future EXCEPT !.st = "run"]
            /\ internal_call' = Append(internal_call, limit)
            /\ UNCHANGED finish_order
       ELSE /\ internal_future' = [internal_future EXCEPT !.st = "done"]
            /\ finish_order' = Append(finish_order, "internal")
            /\ UNCHANGED internal_call
    /\ UNCHANGED <<agent, fs, searches, ctor_args, ctor_docs, ctor_kept, req, pc, source, limit, constructed, yandex_results, internal_results,
                   yandex_future, yandex_call, ext_world, int_world, tasks, pages,
                   fetch_order, raw, all_docs, ranked, merge_read, result, outcome,
                   run_no, first_result, first_in_order, reordered>>

\* lines 85-89: internal.run answers or raises
InternalFinish ==
    /\ internal_future.st = "run"
    /\ \E w \in (IF int_world = NoWorld THEN IntWorlds ELSE {int_world}) :
          /\ int_world' = w
          /\ LET r == safe_search(InternalRun(w), internal_results)
             IN  /\ internal_results' = r.docs
                 /\ internal_future' = [st |-> "done", exc |-> r.exc]
    /\ finish_order' = Append(finish_order, "internal")
    /\ UNCHANGED <<agent, fs, searches, ctor_args, ctor_docs, ctor_kept, req, pc, source, limit, constructed, yandex_results, yandex_future,
                   yandex_call, internal_call, ext_world, tasks, pages, fetch_order, raw,
                   all_docs, ranked, merge_read, result, outcome, run_no, first_result, first_in_order, reordered>>

-----------------------------------------------------------------------------
(* The caller repeats the call: same arguments, same answers of the backends *)

\* the backend tasks and the fetch tasks completed in the order of creation
InOrder ==
    /\ finish_order = <<"yandex", "internal">>
    /\ ~reordered

Again ==
    /\ pc = "done"
    /\ run_no = 1
    /\ run_no' = 2
    /\ first_result' = result
    /\ first_in_order' = InOrder
    /\ pc' = "call"
    /\ source' = req.source
    /\ limit' = req.limit
    /\ constructed' = FALSE
    /\ yandex_results' = <<>>
    /\ internal_results' = <<>>
    /\ yandex_future' = Future("none")
    /\ internal_future' = Future("none")
    /\ yandex_call' = <<>>
    /\ internal_call' = <<>>
    /\ tasks' = <<>>
    /\ pages' = <<>>
    /\ fetch_order' = <<>>
    /\ reordered' = FALSE
    /\ finish_order' = <<>>
    /\ raw' = <<>>
    /\ all_docs' = <<>>
    /\ ranked' = <<>>
    /\ merge_read' = <<>>
    /\ result' = NoResult
    /\ outcome' = "running"
    /\ UNCHANGED <<agent, fs, searches, ctor_args, ctor_docs, ctor_kept, req, ext_world, int_world>>

Next ==
    \/ Validate
    \/ Construct
    \/ SubmitYandex
    \/ SubmitInternal
    \/ WaitYandex
    \/ WaitInternal
    \/ ExitWith
    \/ Merge
    \/ DedupScoreRank
    \/ Return
    \/ YandexStart
    \/ YandexGetLinks
    \/ \E i \in DOMAIN tasks : YandexFetch(i)
    \/ YandexCollect
    \/ YandexFinish
    \/ InternalStart
    \/ InternalFinish

Spec == Init /\ [][Next]_vars

\* the call and its repetition
InitTwice ==
    /\ NoAgentRun
    /\ NoConstructorCalls
    /\ \E q \in Queries, s \in Sources, l \in {2, 11} :
          Entry([query |-> q, source |-> s, limit |-> l])
    /\ ext_world = NoWorld
    /\ int_world = NoWorld
    /\ run_no = 1
    /\ first_result = NoResult
    /\ first_in_order = FALSE

NextTwice == Next \/ Again

SpecTwice == InitTwice /\ [][NextTwice]_vars

\* one call with both backends, over every way loading a link can end
FetchPool ==
    { [link |-> <<"http://", "a.ru">>,
       fetch |-> FetchHtml(Html(<<"N", "k">>, None, None, <<"t", " ", "\n", "x">>, <<>>))],
      [link |-> <<"https://", "consultant.ru", "/", "Doc">>, fetch |-> FetchFailed("status", "500")],
      [link |-> <<"http://", "b.ru", "/", "Doc">>, fetch |-> FetchFailed("timeout", "")],
      [link |-> <<"http://", "b.ru", "/", "forum">>, fetch |-> FetchFailed("client_error", "reset")],
      [link |-> <<"http://", "b.ru", "/", "news">>, fetch |-> FetchFailed("error", "e")],
      [link |-> <<"http://", "a.ru", "/", "Doc">>,
       fetch |-> Fetch("html", "e", Html(<<"K", "o">>, None, None, ParserRaises, ParserRaises))],
      [link |-> <<"b.ru">>, fetch |-> FetchFailed("client_error", "InvalidURL")],
      [link |-> <<"http://", "a.ru", "/", "news">>,
       fetch |-> FetchHtml(Html(None, <<" ">>, None, <<"t">>, <<>>))],
      [link |-> <<"http://", "a.ru", "/", "forum">>,
       fetch |-> FetchHtml(Html(<<" ", "x", " ">>, None, <<"N", "k">>, None, <<"t">>))],
      [link |-> <<"https://", "b.ru">>, fetch |-> FetchFailed("escape", "")],
      [link |-> <<>>, fetch |-> FetchFailed("escape", "")] }

\* longer batches over a page, a placeholder and an empty link
LongBatchPool ==
    {e \in FetchPool : e.link \in {<<>>, <<"http://", "a.ru">>} \/ e.fetch.kind = "status"}

FetchWorlds ==
    {[kind |-> "links", items |-> s] :
        s \in SeqsUpTo(FetchPool, MaxLinks) \cup SeqsUpTo(LongBatchPool, MaxLinks + 1)}

InitFetch ==
    /\ NoAgentRun
    /\ NoConstructorCalls
    /\ Entry([query |-> <<"q">>, source |-> "both", limit |-> 11])
    /\ ext_world \in FetchWorlds
    /\ int_world = [kind |-> "hits", items |-> SubSeq(<<CHOOSE h \in InternalPool : Truthy(h.content)>>, 1, 1)]
    /\ run_no = 1
    /\ first_result = NoResult
    /\ first_in_order = FALSE

SpecFetch == InitFetch /\ [][Next]_vars

-----------------------------------------------------------------------------
(* Documents constructed from arbitrary arguments, then deduplicated *)

CtorTitles == {<<>>, <<" ", " ">>, <<"N", "k">>, <<"n", "k">>}

CtorUrls ==
    { [form |-> "HttpUrl", link |-> <<"http://", "b.ru", "/", "Doc">>],
      [form |-> "HttpUrl", link |-> <<"http://", "b.ru", "/", "doc">>],
      [form |-> "HttpUrl", link |-> <<"http://", "a.ru">>],
      [form |-> "str", link |-> <<"http://", "a.ru">>],
      [form |-> "str", link |-> <<"b.ru">>] }

CtorHashes == {<<>>, <<"h">>}

CtorArgs == [title : CtorTitles, url : CtorUrls, hash : CtorHashes]

InitDoc ==
    /\ NoAgentRun
    /\ Entry([query |-> <<"q">>, source |-> "both", limit |-> 2])
    /\ ext_world = NoWorld
    /\ int_world = NoWorld
    /\ run_no = 1
    /\ first_result = NoResult
    /\ first_in_order = FALSE
    /\ ctor_args \in SeqsUpTo(CtorArgs, MaxDocs)
    /\ ctor_docs = <<>>
    /\ ctor_kept = <<>>

\* the next constructor call
BuildDoc ==
    /\ Len(ctor_docs) < Len(ctor_args)
    /\ ctor_docs' = Append(ctor_docs, model_init(ctor_args[Len(ctor_docs) + 1]))
    /\ UNCHANGED <<agent, fs, searches, ctor_args, ctor_kept, req, pc, source, limit, constructed, yandex_results,
                   internal_results, yandex_future, internal_future, yandex_call,
                   internal_call, ext_world, int_world, tasks, pages, fetch_order,
                   reordered, finish_order, raw, all_docs, ranked, merge_read, result,
                   outcome, run_no, first_result, first_in_order>>

\* the documents that were constructed, in the order of construction
BuiltDocs ==
    LET ok == SelectSeq(ctor_docs, LAMBDA b : b.kind = "ok")
    IN  [i \in DOMAIN ok |-> ok[i].doc]

\* NormalizeMergeRerank._dedup over the constructed documents
DedupDocs ==
    /\ Len(ctor_docs) = Len(ctor_args)
    /\ ctor_args # <<>>
    /\ ctor_kept = <<>>
    /\ BuiltDocs # <<>>
    /\ ctor_kept' = _dedup(BuiltDocs)
    /\ UNCHANGED <<agent, fs, searches, ctor_args, ctor_docs, req, pc, source, limit, constructed, yandex_results,
                   internal_results, yandex_future, internal_future, yandex_call,
                   internal_call, ext_world, int_world, tasks, pages, fetch_order,
                   reordered, finish_order, raw, all_docs, ranked, merge_read, result,
                   outcome, run_no, first_result, first_in_order>>

NextDoc == BuildDoc \/ DedupDocs

SpecDoc == InitDoc /\ [][NextDoc]_vars

-----------------------------------------------------------------------------
(* The agent graph (src/agent/graph.py, src/agent/nodes.py): what the nodes *)
(* compute.  Messages and model answers are written in Latin letters.      *)

MaxSubqueries == 2     \* longest list of sub-queries the model returns

DefaultLimit == 5      \* search_documents(..., limit: int = 5)
CHUNK_SIZE == 8000
MAX_FRAGMENT_SIZE == 10000

\* search_documents.invoke({"query": q}) when the internal index answers iw
\* and the provider and the web answer ew: source and limit take their
\* defaults, and the result is the one the call computes from the answers
search_documents_invoke(q, iw, ew) ==
    IF IsBlank(q) THEN BlankResult(q, "both")
    ELSE LET tsk == NonEmpty(ew.items)
             pgs == [i \in DOMAIN tsk |-> _scrape_page(tsk[i].link, tsk[i].fetch)]
             items == IF ew.kind = "raise" \/ ew.items = <<>> THEN <<>>
                      ELSE processed_items(tsk, pgs, [i \in DOMAIN tsk |-> i])
             ydocs == safe_search(YandexRun(items), <<>>).docs
             idocs == safe_search(InternalRun(iw), <<>>).docs
         IN  FusionResult(Rank(_dedup(MergeDocs(CoerceSource("both"), idocs, ydocs)),
                               ClampLimit(DefaultLimit)),
                          q, CoerceSource("both"))

\* generate_unique_name, utils.py:18-23, without the timestamp: the
\* characters \ / * ? : " < > | are removed, the first 50 are kept and a
\* blank becomes "_"
Forbidden == {"\\", "/", "*", "?", ":", "\"", "<", ">", "|"}
NameLen == 50
SafeName(text) ==
    LET kept == Take(SelectSeq(text, LAMBDA c : c \notin Forbidden), NameLen)
    IN  [i \in DOMAIN kept |-> IF kept[i] = " " THEN "_" ELSE kept[i]]

\* save_json, utils.py:7-11: the directory is created, a file of the same
\* name is replaced.  A file name is the moment of the save (the number of
\* the sub-query, 0 for a file that was there before the run) and the
\* safe name.
WriteFile(dir, file) ==
    [exists |-> TRUE, files |-> {g \in dir.files : g.name # file.name} \cup {file}]

\* nodes.py:58-68: the documents of one result are saved one by one; a
\* formatted document has no key "content", so doc.get("content") is None
RECURSIVE SaveDocs(_, _, _, _)
SaveDocs(dir, k, q, docs) ==
    IF docs = <<>> THEN dir
    ELSE SaveDocs(WriteFile(dir, [name |-> <<k, SafeName(docs[1].title)>>,
                                  data |-> [query |-> q, url |-> docs[1].url,
                                            content |-> None, title |-> docs[1].title]]),
                  k, q, Tail(docs))

\* nodes.py:55-69: the loop over the sub-queries, results[k] being what
\* search_documents returned for the k-th of them
RECURSIVE SaveResults(_, _, _, _)
SaveResults(dir, sub_queries, results, k) ==
    IF k > Len(sub_queries) THEN dir
    ELSE SaveResults(SaveDocs(dir, k, sub_queries[k], results[k].documents),
                     sub_queries, results, k + 1)

\* `"да" in answer` after strip() and lower(), nodes.py:27-29
HasYes(answer) ==
    LET a == Lower(Strip(answer))
    IN  \E i \in 1..(Len(a) - 1) : a[i] = "d" /\ a[i + 1] = "a"

\* the conditional edge after analyze_relevance, graph.py:24-27
RouteAlwaysRelevant(state) == "generate_subqueries"

Route(state) ==
    IF state.is_relevant THEN "generate_subqueries" ELSE "irrelevant_query_response"

\* the edges of graph.py:30-37
EdgeTo ==
    [n \in {"generate_subqueries", "search_and_save", "extract_answers", "audit_answers",
            "synthesize_final_response", "irrelevant_query_response"} |->
        CASE n = "generate_subqueries" -> "search_and_save"
          [] n = "search_and_save" -> "extract_answers"
          [] n = "extract_answers" -> "audit_answers"
          [] n = "audit_answers" -> "synthesize_final_response"
          [] n = "synthesize_final_response" -> "END"
          [] n = "irrelevant_query_response" -> "END"]

\* the two fixed answers, nodes.py:157 and nodes.py:175
NothingFoundMessage == "K sozhaleniyu, ne udalos nayti proverennuyu informatsiyu po vashemu voprosu."
OffTopicMessage == "Vash vopros ne otnositsya k bukhgalterskomu ili nalogovomu uchetu. Pozhaluysta, zadayte vopros po teme."

-----------------------------------------------------------------------------
(* The agent graph: one run of app.invoke({"original_query": q}) *)

\* what the model answers to the relevance prompt
RelevanceReplies == {<<"D", "a">>, <<" ", "d", "a", ".", "\n">>, <<"n", "e", "t">>, <<>>}

\* what json.loads gives for the answer to the sub-query prompt: a list of
\* strings, a JSONDecodeError, or a value that is not a list (a number)
ListOf(items) == [kind |-> "list", items |-> items]
SubqueryPool == {<<"q">>, <<" ">>}
SubqueryReplies ==
    {ListOf(l) : l \in SeqsUpTo(SubqueryPool, MaxSubqueries)}
    \cup {[kind |-> "invalid", items |-> <<>>], [kind |-> "number", items |-> <<>>]}

\* what the backends answer to one search of the agent
AgentWorlds ==
    [int : {Raises, [kind |-> "hits", items |-> <<CHOOSE h \in InternalPool : Truthy(h.content)>>]},
     ext : {[kind |-> "links", items |-> <<>>],
            [kind |-> "links", items |-> <<CHOOSE e \in LinkPool : e.link = <<"http://", "a.ru">>>>]}]

\* the answer to the extraction prompt, and json.loads of the answer to
\* the audit prompt: both checks true ("pass"), a check false or missing
\* ("fail"), a JSONDecodeError ("invalid"), a value that is not an object
ExtractReplies == {<<>>, <<" ">>, <<"a">>}
AuditReplies == {"pass", "fail", "invalid", "not_object"}

\* the directory of the run before the run: absent, or present with the
\* files of a run of the same query in the same second or put there by hand
OldFile ==
    [name |-> <<0, <<"o", "l", "d">>>>,
     data |-> [query |-> <<"q">>, url |-> <<"http://", "a.ru", "/">>,
               content |-> <<"t", "x">>, title |-> <<"o", "l", "d">>]]
InitialDirs == {AbsentDir, [exists |-> TRUE, files |-> {}], [exists |-> TRUE, files |-> {OldFile}]}

AgentState(q) ==
    [original_query |-> q, is_relevant |-> FALSE, sub_queries |-> ListOf(<<>>),
     search_results_path |-> "", thinking_results_file |-> "", final_response |-> "",
     keys |-> {"original_query"}]

search_vars ==
    <<req, pc, source, limit, constructed, yandex_results, internal_results,
      yandex_future, internal_future, yandex_call, internal_call, ext_world, int_world,
      tasks, pages, fetch_order, reordered, finish_order, raw, all_docs, ranked,
      merge_read, result, outcome, run_no, first_result, first_in_order,
      ctor_args, ctor_docs, ctor_kept>>

InitAgent ==
    /\ Entry([query |-> <<"q">>, source |-> "both", limit |-> DefaultLimit])
    /\ ext_world = NoWorld
    /\ int_world = NoWorld
    /\ run_no = 1
    /\ first_result = NoResult
    /\ first_in_order = FALSE
    /\ NoConstructorCalls
    /\ \E q \in {<<"q">>, <<" ">>} :
          agent = [pc |-> "analyze_relevance", state |-> AgentState(q), trace |-> <<>>, error |-> ""]
    /\ \E d \in InitialDirs : fs = [search_dir |-> d, thinking_file |-> AbsentFile]
    /\ searches = <<>>

\* a node ran: the state it returns and the node the graph goes to
Ran(node, state, to) ==
    [pc |-> to, state |-> state, trace |-> Append(agent.trace, node), error |-> ""]

\* a node raised: the run ends with the exception
Failed(node, error) ==
    [pc |-> "raised", state |-> agent.state, trace |-> Append(agent.trace, node), error |-> error]

Set(state, key, value) == [state EXCEPT ![key] = value, !.keys = @ \cup {key}]

\* nodes.py:21-30 and the conditional edge
analyze_relevance ==
    /\ agent.pc = "analyze_relevance"
    /\ \E answer \in RelevanceReplies :
          LET state == Set(agent.state, "is_relevant", HasYes(answer))
          IN  agent' = Ran("analyze_relevance", state, Route(state))
    /\ UNCHANGED <<fs, searches, search_vars>>

\* nodes.py:32-45
generate_subqueries ==
    /\ agent.pc = "generate_subqueries"
    /\ \E r \in SubqueryReplies :
          LET sub_queries == IF r.kind = "invalid" THEN ListOf(<<agent.state.original_query>>) ELSE r
          IN  agent' = Ran("generate_subqueries", Set(agent.state, "sub_queries", sub_queries),
                           EdgeTo["generate_subqueries"])
    /\ UNCHANGED <<fs, searches, search_vars>>

\* nodes.py:47-71
search_and_save ==
    /\ agent.pc = "search_and_save"
    /\ LET sub_queries == agent.state.sub_queries
           state == Set(agent.state, "search_results_path", "search_dir")
       IN  IF sub_queries.kind # "list"
           THEN /\ agent' = Failed("search_and_save", "TypeError")
                /\ UNCHANGED <<fs, searches>>
           ELSE \E ws \in [DOMAIN sub_queries.items -> AgentWorlds] :
                   LET results == [k \in DOMAIN sub_queries.items |->
                                      search_documents_invoke(sub_queries.items[k],
                                                              ws[k].int, ws[k].ext)]
                   IN  /\ searches' = results
                       /\ fs' = [fs EXCEPT !.search_dir =
                                    SaveResults(fs.search_dir, sub_queries.items, results, 1)]
                       /\ agent' = Ran("search_and_save", state, EdgeTo["search_and_save"])
    /\ UNCHANGED search_vars

\* the files of a directory in an order os.listdir may give
Listings(dir) ==
    {l \in [1..Cardinality(dir.files) -> dir.files] :
        \A i, j \in DOMAIN l : (i # j) => (l[i] # l[j])}

\* nodes.py:87-106 for one file whose content is a string
PartialAnswer(file, answer) ==
    [answer |-> answer, url |-> file.data.url,
     fragment |-> Take(Take(file.data.content, CHUNK_SIZE), MAX_FRAGMENT_SIZE),
     file_name |-> file.name, title |-> file.data.title]

\* nodes.py:73-117: os.listdir raises when the directory is absent, and
\* len(content) raises when the content of a file is None
extract_answers ==
    /\ agent.pc = "extract_answers"
    /\ IF ~fs.search_dir.exists
       THEN /\ agent' = Failed("extract_answers", "FileNotFoundError")
            /\ UNCHANGED fs
       ELSE IF \E f \in fs.search_dir.files : f.data.content = None
       THEN /\ agent' = Failed("extract_answers", "TypeError")
            /\ UNCHANGED fs
       ELSE \E l \in Listings(fs.search_dir), replies \in [1..Cardinality(fs.search_dir.files) -> ExtractReplies] :
               LET answered == SelectSeq([i \in DOMAIN l |-> <<l[i], Strip(replies[i])>>],
                                         LAMBDA e : e[2] # <<>>)
                   partial_answers == [i \in DOMAIN answered |->
                                          PartialAnswer(answered[i][1], answered[i][2])]
               IN  /\ fs' = [fs EXCEPT !.thinking_file =
                                [exists |-> TRUE, partial_answers |-> partial_answers]]
                   /\ agent' = Ran("extract_answers",
                                   Set(agent.state, "thinking_results_file", "thinking_file"),
                                   EdgeTo["extract_answers"])
    /\ UNCHANGED <<searches, search_vars>>

\* nodes.py:119-147: audit_result.get raises when the answer is JSON but
\* not an object
audit_answers ==
    /\ agent.pc = "audit_answers"
    /\ LET items == fs.thinking_file.partial_answers
       IN  \E replies \in [DOMAIN items -> AuditReplies] :
              IF \E i \in DOMAIN items : replies[i] = "not_object"
              THEN /\ agent' = Failed("audit_answers", "AttributeError")
                   /\ UNCHANGED fs
              ELSE LET idx == SelectSeq([i \in DOMAIN items |-> i], LAMBDA i : replies[i] = "pass")
                   IN  /\ fs' = [fs EXCEPT !.thinking_file.partial_answers =
                                    [n \in DOMAIN idx |-> items[idx[n]]]]
                       /\ agent' = Ran("audit_answers", agent.state, EdgeTo["audit_answers"])
    /\ UNCHANGED <<searches, search_vars>>

\* nodes.py:149-170; the model's final answer is one text
synthesize_final_response ==
    /\ agent.pc = "synthesize_final_response"
    /\ LET final_response == IF fs.thinking_file.partial_answers = <<>>
                             THEN NothingFoundMessage
                             ELSE "final answer of the model"
       IN  agent' = Ran("synthesize_final_response",
                        Set(agent.state, "final_response", final_response),
                        EdgeTo["synthesize_final_response"])
    /\ UNCHANGED <<fs, searches, search_vars>>

\* nodes.py:173-176
irrelevant_query_response ==
    /\ agent.pc = "irrelevant_query_response"
    /\ agent' = Ran("irrelevant_query_response",
                    Set(agent.state, "final_response", OffTopicMessage),
                    EdgeTo["irrelevant_query_response"])
    /\ UNCHANGED <<fs, searches, search_vars>>

NextAgent ==
    \/ analyze_relevance
    \/ generate_subqueries
    \/ search_and_save
    \/ extract_answers
    \/ audit_answers
    \/ synthesize_final_response
    \/ irrelevant_query_response

SpecAgent == InitAgent /\ [][NextAgent]_vars

-----------------------------------------------------------------------------
(* What the backends gave in the current call *)

\* a call that passed validation and has ended
Finished == pc = "done" /\ ~IsBlank(req.query)

InternalAnswered == int_world # NoWorld /\ internal_future.st = "done"
YandexAnswered == ext_world # NoWorld /\ yandex_future.st = "done"

InternalRaised == InternalAnswered /\ InternalRun(int_world).kind = "raise"
YandexRaised == YandexAnswered /\ YandexRun(raw).kind = "raise"

\* the documents run() returned, none when it raised
InternalDocs == IF InternalAnswered THEN InternalRun(int_world).docs ELSE <<>>
YandexDocs == IF YandexAnswered THEN YandexRun(raw).docs ELSE <<>>

-----------------------------------------------------------------------------
(* C1 *)

\* C1: with both backends selected, when exactly one backend's run raises,
\* search_documents returns normally and its result is the one obtained
\* from the other backend's documents and no document of the failing one.
C1_OneBackendFails ==
    (Finished /\ source = "both" /\ (InternalRaised # YandexRaised))
    => /\ outcome = "returned"
       /\ all_docs = (IF InternalRaised THEN <<>> ELSE InternalDocs)
                     \o (IF YandexRaised THEN <<>> ELSE YandexDocs)
       /\ result = FusionResult(Rank(_dedup(all_docs), limit), req.query, "both")
       /\ \A k \in DOMAIN result.documents :
              result.documents[k].source = (IF InternalRaised THEN "yandex" ELSE "internal")

C1_Witness ==
    /\ Finished
    /\ req.source = "both"
    /\ InternalRaised
    /\ ~YandexRaised
    /\ Len(YandexDocs) = 2
    /\ Len(result.documents) = 2

-----------------------------------------------------------------------------
(* C2 *)

\* C2: the merge reads the two containers only when both submitted tasks
\* have completed: whenever the caller is about to merge, or has merged,
\* both futures were done at that moment.
C2_MergeAfterJoin ==
    /\ pc = "merge" => (yandex_future.st = "done" /\ internal_future.st = "done")
    /\ merge_read # <<>> => merge_read = <<"done", "done">>

C2_Witness ==
    /\ pc = "rank"
    /\ merge_read = <<"done", "done">>
    /\ source = "both"
    /\ finish_order = <<"internal", "yandex">>
    /\ Len(internal_results) >= 1
    /\ Len(yandex_results) >= 1

-----------------------------------------------------------------------------
(* C3 *)

\* C3: the returned list never holds two documents whose titles are equal
\* after lowercasing and whose urls are equal, whichever backends the two
\* hits came from.
C3_DedupInvariant ==
    (Finished /\ outcome = "returned")
    => \A i, j \in DOMAIN result.documents :
          (i # j) => ~(/\ Lower(result.documents[i].title) = Lower(result.documents[j].title)
                       /\ result.documents[i].url = result.documents[j].url)

\* two hits of different backends with the same url and titles that differ
\* in letter case only were merged, and one document was returned
C3_Witness ==
    /\ Finished
    /\ outcome = "returned"
    /\ limit >= 2
    /\ Len(result.documents) = 1
    /\ \E i, j \in DOMAIN all_docs :
          /\ all_docs[i].source # all_docs[j].source
          /\ all_docs[i].title # all_docs[j].title
          /\ Lower(all_docs[i].title) = Lower(all_docs[j].title)
          /\ all_docs[i].url = all_docs[j].url

-----------------------------------------------------------------------------
(* C4 *)

Min(a, b) == IF a < b THEN a ELSE b

\* the deduplicated documents of the call with their scores, in merge order
ScoredInMergeOrder ==
    LET kept == _dedup(all_docs) IN [i \in DOMAIN kept |-> _score(kept[i])]

\* p lists the positions of D by score_rank descending, equal scores in
\* the order of D
IsStableDescending(D, p) ==
    /\ \A a, b \in DOMAIN p : (a # b) => (p[a] # p[b])
    /\ \A a, b \in DOMAIN p :
          (a < b) => \/ D[p[a]].score_rank > D[p[b]].score_rank
                     \/ /\ D[p[a]].score_rank = D[p[b]].score_rank
                        /\ p[a] < p[b]

\* C4: the returned documents are the first `limit` of the deduplicated
\* documents ordered by score_rank descending with equal scores kept in
\* merge order.
C4_RankedStableTruncated ==
    (Finished /\ outcome = "returned")
    => LET D == ScoredInMergeOrder
       IN  \E p \in [DOMAIN D -> DOMAIN D] :
              /\ IsStableDescending(D, p)
              /\ result.documents = [k \in 1..Min(limit, Len(D)) |-> FormatDoc(D[p[k]])]

\* a later-merged document was ranked first, two documents tied on the
\* score and the truncation cut between them
C4_Witness ==
    /\ Finished
    /\ outcome = "returned"
    /\ LET D == ScoredInMergeOrder
       IN  /\ Len(D) = 3
           /\ Len(result.documents) = 2
           /\ result.documents[1] = FormatDoc(D[3])
           /\ result.documents[2] = FormatDoc(D[1])
           /\ D[1].score_rank = D[2].score_rank

-----------------------------------------------------------------------------
(* C5 *)

\* C5: for every requested limit each backend is called with
\* min(max(limit, 1), 10) and at most that many documents are returned.
C5_EffectiveLimit ==
    LET eff == Min(IF req.limit > 1 THEN req.limit ELSE 1, 10)
    IN  /\ \A k \in DOMAIN yandex_call : yandex_call[k] = eff
        /\ \A k \in DOMAIN internal_call : internal_call[k] = eff
        /\ (Finished /\ outcome = "returned") => Len(result.documents) <= eff

\* limit 0 is treated as 1: both backends were called with 1 and one of
\* several documents was returned
C5_Witness ==
    /\ Finished
    /\ outcome = "returned"
    /\ req.limit = 0
    /\ yandex_call = <<1>>
    /\ internal_call = <<1>>
    /\ Len(_dedup(all_docs)) >= 2
    /\ Len(result.documents) = 1

-----------------------------------------------------------------------------
(* C6 *)

\* C6: on a query that is empty or only whitespace no backend is
\* constructed or invoked, and the call returns no documents, total_found 0
\* and the query as it was passed.
C6_BlankQuery ==
    (\A i \in DOMAIN req.query : req.query[i] \in {" ", "\t", "\n"})
    => /\ ~constructed
       /\ yandex_call = <<>> /\ internal_call = <<>>
       /\ yandex_future.st = "none" /\ internal_future.st = "none"
       /\ ext_world = NoWorld /\ int_world = NoWorld
       /\ (pc = "done") => /\ outcome = "returned"
                           /\ result.documents = <<>>
                           /\ result.total_found = 0
                           /\ result.query = req.query

C6_Witness ==
    /\ pc = "done"
    /\ req.query = <<" ">>
    /\ req.source = "invalid_value"
    /\ req.limit = 11
    /\ result.total_found = 0
    /\ result.query = <<" ">>

-----------------------------------------------------------------------------
(* C7 *)

\* C7: a source outside internal, yandex, both is treated as both: both
\* backends are invoked, the documents of both are merged and the result
\* is the one of source=both, with "both" in its source field.
C7_UnknownSourceIsBoth ==
    (Finished /\ req.source \notin {"internal", "yandex", "both"})
    => /\ outcome = "returned"
       /\ Len(yandex_call) = 1 /\ Len(internal_call) = 1
       /\ YandexAnswered /\ InternalAnswered
       /\ all_docs = InternalDocs \o YandexDocs
       /\ result = FusionResult(Rank(_dedup(InternalDocs \o YandexDocs), limit),
                                req.query, "both")

C7_Witness ==
    /\ Finished
    /\ req.source = "invalid_value"
    /\ result.source = "both"
    /\ \E i, j \in DOMAIN result.documents :
          /\ result.documents[i].source = "internal"
          /\ result.documents[j].source = "yandex"

-----------------------------------------------------------------------------
(* C8 *)

\* a backend that was asked gave nothing: it raised or returned no document
InternalGaveNothing == InternalAnswered /\ InternalDocs = <<>>
YandexGaveNothing == YandexAnswered /\ YandexDocs = <<>>

\* C8: when each of the two backends returns no document or raises, the
\* call returns documents = [] and total_found = 0 and raises nothing.
C8_BothEmptyOrFailed ==
    (pc = "done" /\ InternalGaveNothing /\ YandexGaveNothing)
    => /\ outcome = "returned"
       /\ result.documents = <<>>
       /\ result.total_found = 0

\* both backends raised
C8_Witness ==
    /\ pc = "done"
    /\ source = "both"
    /\ InternalRaised
    /\ YandexRaised
    /\ result.total_found = 0

-----------------------------------------------------------------------------
(* C9 *)

\* C9: a repeated call with the same arguments and the same answers of the
\* backends returns the same sequence of documents, whatever the order in
\* which the backend tasks and the page fetches complete in either call.
C9_Deterministic ==
    (run_no = 2 /\ pc = "done")
    => /\ outcome = "returned"
       /\ result.documents = first_result.documents

\* the first call saw the backend tasks and the fetches complete in the
\* order of creation, the second one in the reverse order, and both
\* returned the same three documents
C9_Witness ==
    /\ run_no = 2
    /\ pc = "done"
    /\ first_in_order
    /\ finish_order = <<"internal", "yandex">>
    /\ reordered
    /\ Len(result.documents) = 3
    /\ result.documents = first_result.documents

-----------------------------------------------------------------------------
(* C10 *)

\* C10: with both backends selected the merged sequence is the internal
\* backend's documents in its order followed by the external backend's
\* documents in its order, whichever task completed first.
C10_InternalBeforeExternal ==
    (pc \in {"rank", "format"} /\ source = "both")
    => /\ all_docs = InternalDocs \o YandexDocs
       /\ \A i, j \in DOMAIN all_docs :
             (all_docs[i].source = "internal" /\ all_docs[j].source = "yandex") => i < j

\* the external task completed first and both backends returned two documents
C10_Witness ==
    /\ pc = "rank"
    /\ source = "both"
    /\ finish_order = <<"yandex", "internal">>
    /\ Len(InternalDocs) = 2
    /\ Len(YandexDocs) = 2
    /\ Len(all_docs) = 4

-----------------------------------------------------------------------------
(* C11 *)

\* the documents of the two backends in merge order
MergeOrder == InternalDocs \o YandexDocs

\* position i holds the first document of M with its hash
IsFirstOfGroup(M, i) == \A j \in 1..(i - 1) : M[j].hash # M[i].hash

\* C11: of every group of merged documents with the same content identity
\* exactly the first one in merge order goes on to scoring and ranking;
\* when an internal and an external document share the identity, the
\* internal one is the one ranked.
C11_DedupKeepsFirst ==
    (pc \in {"format", "done"} /\ ~IsBlank(req.query))
    => LET M == MergeOrder
       IN  /\ \A k \in DOMAIN ranked :
                 \E i \in DOMAIN M : IsFirstOfGroup(M, i) /\ ranked[k] = _score(M[i])
           /\ \A a, b \in DOMAIN ranked : (a # b) => ranked[a].hash # ranked[b].hash
           /\ Len(ranked) = Min(limit, Cardinality({M[i].hash : i \in DOMAIN M}))
           /\ \A k \in DOMAIN ranked :
                 (\E i \in DOMAIN M : M[i].source = "internal" /\ M[i].hash = ranked[k].hash)
                 => ranked[k].source = "internal"

\* an internal and an external document shared the identity, nothing was
\* truncated, and the group's ranked document is the internal one
C11_Witness ==
    /\ pc = "done"
    /\ outcome = "returned"
    /\ source = "both"
    /\ limit >= Len(all_docs)
    /\ Len(all_docs) = 3
    /\ Len(ranked) = 2
    /\ \E i, j \in DOMAIN all_docs, k \in DOMAIN ranked :
          /\ all_docs[i].source = "internal"
          /\ all_docs[j].source = "yandex"
          /\ all_docs[i].hash = all_docs[j].hash
          /\ ranked[k].hash = all_docs[i].hash
          /\ ranked[k].source = "internal"

-----------------------------------------------------------------------------
(* C12 *)

\* loading ended in a status other than 200, a timeout, a transport error,
\* another exception of the load, or a failure of both extractions
FetchFails(f) ==
    \/ f.kind \in {"status", "timeout", "client_error", "error"}
    \/ /\ f.kind = "html"
       /\ f.html.extracted \in {ParserRaises, None, <<>>}
       /\ f.html.body = ParserRaises

\* search() has returned its items
Collected == yandex_future.st \in {"collected", "done"} /\ tasks # <<>>

\* how many elements of s satisfy Test
CountOf(s, Test(_)) == Cardinality({i \in DOMAIN s : Test(s[i])})

-----------------------------------------------------------------------------
(* C13 *)

\* the item search() builds from the page of task j
ItemOf(j) == [title |-> pages[j].title, url |-> tasks[j].link, content |-> pages[j].content]

\* C13: when a fetch task of the batch ended with an exception that gather
\* captured, the items of all other tasks are returned as fetched and the
\* failing link is in the returned items as a placeholder.
C13_ExceptionBecomesPlaceholder ==
    Collected
    => \A i \in DOMAIN tasks :
          pages[i].kind = "exc"
          => /\ \A j \in DOMAIN tasks :
                   pages[j].kind = "page" => \E k \in DOMAIN raw : raw[k] = ItemOf(j)
             /\ \E k \in DOMAIN raw :
                   raw[k].url = tasks[i].link /\ raw[k].title \in {ErrorTitle, NoTitle}

-----------------------------------------------------------------------------
(* C14 *)

\* C14: whatever links the provider returned, empty ones included, and in
\* whatever order the fetch tasks completed, every item search() returns
\* holds the title and the content of the page loaded from the link in
\* its url field.
C14_ItemPairedWithOwnLink ==
    Collected
    => \A k \in DOMAIN raw :
          \E n \in DOMAIN ext_world.items :
             LET e == ext_world.items[n]
                 page == _scrape_page(e.link, e.fetch)
             IN  /\ e.link # <<>>
                 /\ e.link = raw[k].url
                 /\ page.kind = "page"
                 /\ raw[k].title = page.title
                 /\ raw[k].content = page.content

\* the provider's list began with an empty link, the second fetch task
\* completed before the first, and two items with different pages came back
C14_Witness ==
    /\ Collected
    /\ Len(ext_world.items) = 3
    /\ ext_world.items[1].link = <<>>
    /\ reordered
    /\ Len(raw) = 2
    /\ raw[1].url # raw[2].url
    /\ raw[1].title # raw[2].title
    /\ raw[1].url = ext_world.items[2].link
    /\ raw[2].url = ext_world.items[3].link

-----------------------------------------------------------------------------
(* C15 *)

\* C15: whatever the pages of a batch are, YandexSearch.run does not
\* raise, and every item that makes a valid document on its own is among
\* the documents of the external adapter and among the merged documents.
C15_BadPageDoesNotAbortBatch ==
    (yandex_future.st = "done" /\ tasks # <<>>)
    => /\ YandexRun(raw).kind = "ok"
       /\ \A k \in DOMAIN raw :
             ValidDoc(raw[k].title, raw[k].url)
             => /\ \E n \in DOMAIN yandex_results :
                      /\ yandex_results[n].url = HttpUrlStr(raw[k].url)
                      /\ yandex_results[n].title = raw[k].title
                /\ pc \in {"rank", "format", "done"}
                   => \E n \in DOMAIN all_docs :
                         /\ all_docs[n].source = "yandex"
                         /\ all_docs[n].url = HttpUrlStr(raw[k].url)

-----------------------------------------------------------------------------
(* C16 *)

\* the title the specification substitutes for an empty one
Untitled == <<"U", "n", "t", "i", "t", "l", "e", "d">>

\* C16: a constructor call with a well-formed absolute url gives a
\* document whatever the title is, with the placeholder title when the
\* title is empty after trimming; only a malformed url gives an error.
C16_OnlyMalformedUrlFails ==
    \A i \in DOMAIN ctor_docs :
       /\ IsHttpUrl(ctor_args[i].url.link)
          => /\ ctor_docs[i].kind = "ok"
             /\ Strip(ctor_args[i].title) = <<>> => ctor_docs[i].doc.title = Untitled
       /\ ctor_docs[i].kind = "raise" => ~IsHttpUrl(ctor_args[i].url.link)

-----------------------------------------------------------------------------
(* C17 *)

\* the identity recomputed from a document's own title and url
RecomputedHash(doc) == Md5(Lower(doc.title \o <<"|">> \o doc.url))

\* C17: whatever was passed for hash, the hash stored in a constructed
\* document is the hash of its own lowercased title + "|" + url.
C17_StoredHashIsRecomputed ==
    \A i \in DOMAIN ctor_docs :
       ctor_docs[i].kind = "ok" => ctor_docs[i].doc.hash = RecomputedHash(ctor_docs[i].doc)

-----------------------------------------------------------------------------
(* C18 *)

\* call i gave a document whose hash was computed, from an HttpUrl object
ComputedDoc(i) ==
    /\ ctor_docs[i].kind = "ok"
    /\ ctor_args[i].hash = <<>>
    /\ ctor_args[i].url.form = "HttpUrl"

\* C18: two documents have the same content identity exactly when their
\* lowercased titles are equal and their urls are equal character by
\* character; two documents whose urls differ, be it only in letter case,
\* have different identities and are both kept by the deduplication.
C18_DuplicateIffTitleLowerUrlLiteral ==
    (ctor_kept # <<>>)
    => \A i, j \in DOMAIN ctor_docs :
          (i < j /\ ComputedDoc(i) /\ ComputedDoc(j))
          => LET a == ctor_docs[i].doc
                 b == ctor_docs[j].doc
             IN  /\ (a.hash = b.hash) <=> (Lower(a.title) = Lower(b.title) /\ a.url = b.url)
                 /\ (a.url # b.url)
                    => /\ a.hash # b.hash
                       /\ \E k \in DOMAIN ctor_kept : ctor_kept[k] = a
                       /\ \E k \in DOMAIN ctor_kept : ctor_kept[k] = b

-----------------------------------------------------------------------------
(* C19 *)

\* C19: the snippet of a returned document is the snippet of the backend
\* when there is one, with or without content, otherwise the first 200
\* characters of the content, and empty when there is neither.
C19_SnippetOrContentHead ==
    (Finished /\ outcome = "returned")
    => /\ Len(result.documents) = Len(ranked)
       /\ \A k \in DOMAIN result.documents :
             result.documents[k].snippet =
                IF Truthy(ranked[k].snippet) THEN ranked[k].snippet
                ELSE IF Truthy(ranked[k].content) THEN Take(ranked[k].content, SnippetLen)
                ELSE <<>>

-----------------------------------------------------------------------------
(* C20 *)

\* C20: the dictionary search_documents returns has the top-level keys
\* documents, total_found, query and source, no more and no less, on the
\* path of the blank query as on the normal path.
C20_SameKeysOnBothPaths ==
    (pc = "done" /\ outcome = "returned")
    => result.keys = {"documents", "total_found", "query", "source"}

-----------------------------------------------------------------------------
(* C21 *)

\* search_and_save has run and every search of it returned no document
AllSearchesEmpty ==
    /\ searches # <<>>
    /\ \A k \in DOMAIN searches : searches[k].documents = <<>>

\* C21: when every search of search_and_save returned no document, no
\* node of the run raises, and the run that has ended has final_response set.
C21_ZeroDocumentsIsNormal ==
    AllSearchesEmpty
    => /\ agent.pc # "raised"
       /\ agent.pc = "END" => /\ "final_response" \in agent.state.keys
                              /\ agent.state.final_response # ""

-----------------------------------------------------------------------------
(* C22 *)

\* the trimmed text of the first of <title>, og:title and twitter:title
\* that has one, the placeholder when none has
FirstNonEmptyTitle(html) ==
    IF Truthy(html.title_tag) /\ Strip(html.title_tag) # <<>> THEN Strip(html.title_tag)
    ELSE IF Truthy(html.og_title) /\ Strip(html.og_title) # <<>> THEN Strip(html.og_title)
    ELSE IF Truthy(html.tw_title) /\ Strip(html.tw_title) # <<>> THEN Strip(html.tw_title)
    ELSE NoTitle

\* the page of task i was loaded and its text extracted, so that its title
\* is what _extract_title_from_html returned
TitleExtracted(i) ==
    /\ pages[i].kind = "page"
    /\ tasks[i].fetch.kind = "html"
    /\ tasks[i].fetch.html.extracted # ParserRaises
    /\ Truthy(tasks[i].fetch.html.extracted)

\* C22: the title extracted from a page is the trimmed text of the first
\* of <title>, og:title, twitter:title that is not empty after trimming,
\* the placeholder when there is none, and it is never empty.
C22_TitleFromFirstNonEmptySource ==
    \A i \in DOMAIN tasks :
       (i \in DOMAIN pages /\ TitleExtracted(i))
       => /\ pages[i].title = FirstNonEmptyTitle(tasks[i].fetch.html)
          /\ pages[i].title # <<>>

-----------------------------------------------------------------------------
(* C23 *)

\* the calling thread has passed both submits
BothSubmitted ==
    pc \in {"wait_yandex", "wait_internal", "exit_with", "merge", "rank", "format"} \/ Finished

\* C23: with source=internal the external backend's run is never called
\* and no external document is returned; with source=yandex the internal
\* backend's run is never called and no internal document is returned; both
\* worker tasks are submitted all the same.
C23_UnselectedBackendNotCalled ==
    /\ req.source = "internal"
       => /\ yandex_call = <<>> /\ ext_world = NoWorld /\ tasks = <<>> /\ yandex_results = <<>>
          /\ \A k \in DOMAIN result.documents : result.documents[k].source = "internal"
    /\ req.source = "yandex"
       => /\ internal_call = <<>> /\ int_world = NoWorld /\ internal_results = <<>>
          /\ \A k \in DOMAIN result.documents : result.documents[k].source = "yandex"
    /\ BothSubmitted => (yandex_future.st # "none" /\ internal_future.st # "none")

\* source=internal: both tasks were submitted and have ended, the external
\* backend was not called and two internal documents were returned
C23_Witness ==
    /\ Finished
    /\ outcome = "returned"
    /\ req.source = "internal"
    /\ yandex_future.st = "done"
    /\ internal_future.st = "done"
    /\ yandex_call = <<>>
    /\ Len(internal_call) = 1
    /\ Len(result.documents) = 2

-----------------------------------------------------------------------------
(* C24 *)

\* C24: in every result total_found is the length of the returned list of
\* documents, that is the number of deduplicated documents cut at the
\* effective limit and not the number of merged hits, so it never exceeds
\* the effective limit.
C24_TotalFoundIsReturnedCount ==
    (pc = "done" /\ outcome = "returned")
    => /\ result.total_found = Len(result.documents)
       /\ Finished
          => LET eff == Min(IF req.limit > 1 THEN req.limit ELSE 1, 10)
             IN  /\ result.total_found <= eff
                 /\ result.total_found
                       = Min(eff, Cardinality({all_docs[i].hash : i \in DOMAIN all_docs}))

\* four hits were merged, three were left after deduplication and two
\* were returned: total_found is 2
C24_Witness ==
    /\ Finished
    /\ outcome = "returned"
    /\ req.limit = 2
    /\ Len(all_docs) = 4
    /\ Len(_dedup(all_docs)) = 3
    /\ Len(result.documents) = 2
    /\ result.total_found = 2

-----------------------------------------------------------------------------
(* C25 *)

\* analyze_relevance has run and found the query off topic
FoundIrrelevant == "is_relevant" \in agent.state.keys /\ ~agent.state.is_relevant

\* C25: once analyze_relevance has set is_relevant to false the run is at
\* irrelevant_query_response or, after it, at END; no other node has run
\* or runs, no search was made and no file written, and at END
\* final_response is the fixed off-topic message.
C25_IrrelevantGoesToEnd ==
    FoundIrrelevant
    => /\ \/ /\ agent.pc = "irrelevant_query_response"
             /\ agent.trace = <<"analyze_relevance">>
             /\ "final_response" \notin agent.state.keys
          \/ /\ agent.pc = "END"
             /\ agent.trace = <<"analyze_relevance", "irrelevant_query_response">>
             /\ agent.state.final_response = OffTopicMessage
       /\ searches = <<>>
       /\ fs.search_dir \in InitialDirs
       /\ ~fs.thinking_file.exists

\* an off-topic query ended with the two nodes and the fixed message
C25_Witness ==
    /\ FoundIrrelevant
    /\ agent.pc = "END"
    /\ agent.trace = <<"analyze_relevance", "irrelevant_query_response">>
    /\ agent.state.final_response = OffTopicMessage
    /\ agent.state.keys = {"original_query", "is_relevant", "final_response"}

-----------------------------------------------------------------------------
(* C26 *)

\* the nodes of a run on a relevant query, in the order of the edges
RelevantOrder ==
    <<"analyze_relevance", "generate_subqueries", "search_and_save", "extract_answers",
      "audit_answers", "synthesize_final_response">>

\* the query was found relevant, the model returned a list of sub-queries
\* and the search tool returned at least one document
RelevantRunWithDocuments ==
    /\ "is_relevant" \in agent.state.keys
    /\ agent.state.is_relevant
    /\ \E k \in DOMAIN searches : searches[k].documents # <<>>

\* C26: a run on a relevant query executes the six nodes in the order of
\* the edges, no node raises (extract_answers reads the documents that
\* search_and_save saved without error), and the run that has ended is
\* at END with final_response set.
C26_RelevantRunReachesEnd ==
    RelevantRunWithDocuments
    => /\ agent.pc # "raised"
       /\ agent.trace = SubSeq(RelevantOrder, 1, Len(agent.trace))
       /\ agent.pc = "END" => /\ agent.trace = RelevantOrder
                              /\ agent.state.final_response # ""

====
